---- MODULE Spec2Model ----
(***************************************************************************)
(* Model of Recipe_Generator.py: the RecipeGenerator class (catalog load,  *)
(* find_recipes, _calculate_match_score, format_recipe) and the            *)
(* interactive loop of main().                                             *)
(*                                                                         *)
(* A Python str is a sequence of one-character strings.  A Python value    *)
(* held in a catalog cell is a record [kind, items, n]: a list with its    *)
(* items, or an int n.  An element of a list is a record [kind, s, n]: a   *)
(* str s or an int n.                                                      *)
(*                                                                         *)
(* Three specifications share the variables:                               *)
(*   Spec        main(): the load of the catalog and the interactive loop  *)
(*   SpecSearch  find_recipes as a function of catalog, terms and limit    *)
(*   SpecFormat  format_recipe as a function of the recipe                 *)
(***************************************************************************)
EXTENDS Integers, Sequences, FiniteSets, TLC

VARIABLES pc, df, ratio, user_input, user_ingredients, max_recipes, matches,
          choice, formatted, output

vars == <<pc, df, ratio, user_input, user_ingredients, max_recipes, matches,
          choice, formatted, output>>

(***************************************************************************)
(* Bounds of the model.                                                    *)
(***************************************************************************)
\* rows of a catalog
MaxRecipes == 2

\* ingredient strings of a catalog, summed over its rows
MaxIngredients == 3

\* the max_recipes argument of find_recipes
MaxLimit == 2

\* characters of an ingredient string of the format model
MaxStrLen == 2

\* ingredients of the recipe of the format model
MaxListLen == 2

(***************************************************************************)
(* Strings.                                                                *)
(***************************************************************************)
UpperLetters == <<"A","B","C","D","E","F","G","H","I","J","K","L","M",
                  "N","O","P","Q","R","S","T","U","V","W","X","Y","Z">>

LowerLetters == <<"a","b","c","d","e","f","g","h","i","j","k","l","m",
                  "n","o","p","q","r","s","t","u","v","w","x","y","z">>

\* the lower-case letter of every upper-case letter
LowerMap ==
    [c \in {UpperLetters[i] : i \in DOMAIN UpperLetters} |->
        LowerLetters[CHOOSE i \in DOMAIN UpperLetters : UpperLetters[i] = c]]

LowerChar(c) == IF c \in DOMAIN LowerMap THEN LowerMap[c] ELSE c

\* str.lower()
Lower(s) == [i \in DOMAIN s |-> LowerChar(s[i])]

Min(a, b) == IF a <= b THEN a ELSE b

\* all sequences over S of length at most n
SeqsUpTo(S, n) == UNION {[1..k -> S] : k \in 0..n}

Range(s) == {s[i] : i \in DOMAIN s}

(***************************************************************************)
(* Python values.                                                          *)
(***************************************************************************)
\* a str and an int, as elements of a list
PyStr(s) == [kind |-> "str", s |-> s, n |-> 0]

PyInt(n) == [kind |-> "int", s |-> <<>>, n |-> n]

\* a list and an int, as values of a cell
PyList(items) == [kind |-> "list", items |-> items, n |-> 0]

PyNonList(n) == [kind |-> "int", items |-> <<>>, n |-> n]

\* the list of str built from a sequence of strings
StrList(ss) == PyList([i \in DOMAIN ss |-> PyStr(ss[i])])

(***************************************************************************)
(* The sample strings of the search model.                                 *)
(***************************************************************************)
egg == <<"e","g","g">>

Egg == <<"E","g","g">>

butter == <<"b","u","t","t","e","r">>

\* the terms extract_ingredients can produce: lower-cased lemmas
TermUniverse == {egg, butter}

\* the ingredient strings a catalog can hold
IngredientUniverse == {Egg, butter}

LowerUniverse == {Lower(s) : s \in IngredientUniverse}

\* list(set(...)): the duplicate-free lists of terms, in any order
TermLists == {t \in SeqsUpTo(TermUniverse, Cardinality(TermUniverse)) :
                 \A i, j \in DOMAIN t : i # j => t[i] # t[j]}

recipeName == <<"n">>

(***************************************************************************)
(* fuzz.partial_ratio is a library function: a fixed function of its two   *)
(* strings, whose values the model draws once, in Init.  The code only     *)
(* compares the ratio with the threshold, so the two values next to the    *)
(* threshold stand for the ratios at most 75 and the ratios above 75.      *)
(***************************************************************************)
Threshold == 75

RatioValues == {Threshold, Threshold + 1}

RatioTables == [TermUniverse \X LowerUniverse -> RatioValues]

PartialRatio(a, b) == ratio[<<a, b>>]

(***************************************************************************)
(* RecipeGenerator._calculate_match_score                                  *)
(***************************************************************************)
\* line 52 runs without an exception: the value is a list and every
\* element has a lower() method
LowerOk(recipe_ingredients) ==
    /\ recipe_ingredients.kind = "list"
    /\ \A i \in DOMAIN recipe_ingredients.items :
          recipe_ingredients.items[i].kind = "str"

\* line 52: [ing.lower() for ing in recipe_ingredients]
LowerAll(recipe_ingredients) ==
    [i \in DOMAIN recipe_ingredients.items |->
        Lower(recipe_ingredients.items[i].s)]

\* mutant of Similar: the threshold taken as an inclusive bound
SimilarInclusive(user_ing, recipe_ing) ==
    PartialRatio(user_ing, recipe_ing) >= Threshold

\* line 57: the test of the if
Similar(user_ing, recipe_ing) ==
    PartialRatio(user_ing, recipe_ing) > Threshold

\* mutant of InnerLoop: the break of line 59 left out
RECURSIVE InnerLoopNoBreak(_, _, _)
InnerLoopNoBreak(user_ing, lowered, j) ==
    IF j > Len(lowered) THEN 0
    ELSE IF Similar(user_ing, lowered[j])
         THEN 1 + InnerLoopNoBreak(user_ing, lowered, j + 1)
         ELSE InnerLoopNoBreak(user_ing, lowered, j + 1)

\* lines 55-59, from position j on: what the inner loop adds to the score
RECURSIVE InnerLoop(_, _, _)
InnerLoop(user_ing, lowered, j) ==
    IF j > Len(lowered) THEN 0
    ELSE IF Similar(user_ing, lowered[j])
         THEN 1
         ELSE InnerLoop(user_ing, lowered, j + 1)

\* lines 54-59, from position k on
RECURSIVE OuterLoop(_, _, _)
OuterLoop(terms, lowered, k) ==
    IF k > Len(terms) THEN 0
    ELSE InnerLoop(terms[k], lowered, 1) + OuterLoop(terms, lowered, k + 1)

calculate_match_score(terms, recipe_ingredients) ==
    OuterLoop(terms, LowerAll(recipe_ingredients), 1)

(***************************************************************************)
(* RecipeGenerator.find_recipes                                            *)
(***************************************************************************)
\* lines 35-43
MatchOf(row, score) ==
    [id |-> row.id, name |-> row.name, time |-> row.minutes, score |-> score,
     ingredients |-> row.ingredients, steps |-> row.steps,
     n_ingredients |-> row.n_ingredients]

\* mutant of ScanRows: the filter of line 34 taken as match_score >= 0
RECURSIVE ScanRowsKeepZero(_, _, _)
ScanRowsKeepZero(rows, terms, i) ==
    IF i > Len(rows) THEN <<>>
    ELSE <<MatchOf(rows[i], calculate_match_score(terms, rows[i].ingredients))>>
         \o ScanRowsKeepZero(rows, terms, i + 1)

\* lines 32-43, from row i on
RECURSIVE ScanRows(_, _, _)
ScanRows(rows, terms, i) ==
    IF i > Len(rows) THEN <<>>
    ELSE LET match_score == calculate_match_score(terms, rows[i].ingredients)
         IN  IF match_score > 0
             THEN <<MatchOf(rows[i], match_score)>> \o ScanRows(rows, terms, i + 1)
             ELSE ScanRows(rows, terms, i + 1)

\* mutant of InsertDesc: an element goes before the elements of its score
RECURSIVE InsertDescUnstable(_, _)
InsertDescUnstable(sorted, m) ==
    IF sorted = <<>> THEN <<m>>
    ELSE IF Head(sorted).score > m.score
         THEN <<Head(sorted)>> \o InsertDescUnstable(Tail(sorted), m)
         ELSE <<m>> \o sorted

\* list.sort(key=score, reverse=True) is stable: an element goes behind the
\* elements of the same score that came before it
RECURSIVE InsertDesc(_, _)
InsertDesc(sorted, m) ==
    IF sorted = <<>> THEN <<m>>
    ELSE IF Head(sorted).score >= m.score
         THEN <<Head(sorted)>> \o InsertDesc(Tail(sorted), m)
         ELSE <<m>> \o sorted

RECURSIVE SortFrom(_, _, _)
SortFrom(ms, sorted, i) ==
    IF i > Len(ms) THEN sorted
    ELSE SortFrom(ms, InsertDesc(sorted, ms[i]), i + 1)

\* mutant of SortByScoreDesc: the sort of line 46 left out
SortLeftOut(ms) == ms

\* line 46
SortByScoreDesc(ms) == SortFrom(ms, <<>>, 1)

\* mutant of Truncate: the last max_recipes entries, matches[-max_recipes:]
TruncateTail(ms, limit) == SubSeq(ms, Len(ms) - Min(limit, Len(ms)) + 1, Len(ms))

\* line 47: matches[:max_recipes], for max_recipes >= 1
Truncate(ms, limit) == SubSeq(ms, 1, Min(limit, Len(ms)))

\* find_recipes raises when a row's ingredients make line 52 raise
FindRaises(rows) == \E i \in DOMAIN rows : ~LowerOk(rows[i].ingredients)

find_recipes(rows, terms, limit) ==
    Truncate(SortByScoreDesc(ScanRows(rows, terms, 1)), limit)

(***************************************************************************)
(* The string literals of the program and the sample inputs.               *)
(***************************************************************************)
LIT_RECIPE == <<"\n", "R", "e", "c", "i", "p", "e", ":", " ">>

LIT_ID == <<" ", "(", "I", "D", ":", " ">>

LIT_CLOSE == <<")">>

LIT_TIME == <<"\n", "T", "i", "m", "e", ":", " ">>

LIT_MINUTES == <<" ", "m", "i", "n", "u", "t", "e", "s">>

LIT_INGREDIENTS == <<"\n", "\n", "I", "n", "g", "r", "e", "d", "i", "e", "n", "t", "s", " ", "(">>

LIT_COLON == <<")", ":">>

LIT_STEPS == <<"\n", "\n", "S", "t", "e", "p", "s", ":">>

LIT_QUIT == <<"q", "u", "i", "t">>

LIT_EXIT == <<"e", "x", "i", "t">>

LIT_QUIT_PADDED == <<" ", "Q", "u", "i", "t", " ">>

LIT_EXIT_UPPER == <<"E", "X", "I", "T">>

LIT_QUERY == <<"e", "g", "g", "s">>

LIT_BACK == <<"b", "a", "c", "k">>

(***************************************************************************)
(* RecipeGenerator.format_recipe                                           *)
(***************************************************************************)
DecimalDigits == <<"0", "1", "2", "3", "4", "5", "6", "7", "8", "9">>

\* str() of a non-negative int
RECURSIVE Str(_)
Str(n) ==
    IF n < 10 THEN <<DecimalDigits[n + 1]>>
    ELSE Str(n \div 10) \o <<DecimalDigits[(n % 10) + 1]>>

\* the text an f-string puts for an element
ToText(elem) == IF elem.kind = "str" THEN elem.s ELSE Str(elem.n)

\* sep.join(parts)
RECURSIVE Join(_, _)
Join(sep, parts) ==
    IF parts = <<>> THEN <<>>
    ELSE IF Len(parts) = 1 THEN parts[1]
    ELSE parts[1] \o sep \o Join(sep, Tail(parts))

NewLine == <<"\n">>

\* mutant of IngredientLine: the space after the dash left out
IngredientLineNoSpace(ing) == <<"-">> \o ToText(ing)

\* line 68: f"- {ing}"
IngredientLine(ing) == <<"-", " ">> \o ToText(ing)

\* line 70: f"{i+1}. {step}", i counted from 0
StepLine(i, step) == Str(i + 1) \o <<".", " ">> \o ToText(step)

\* format_recipe raises when a join iterates over a value that is no list
FormatRaises(recipe) ==
    recipe.ingredients.kind # "list" \/ recipe.steps.kind # "list"

format_recipe(recipe) ==
    LIT_RECIPE \o recipe.name \o LIT_ID \o Str(recipe.id) \o LIT_CLOSE
    \o LIT_TIME \o Str(recipe.time) \o LIT_MINUTES
    \o LIT_INGREDIENTS \o Str(recipe.n_ingredients) \o LIT_COLON
    \o NewLine
    \o Join(NewLine, [i \in DOMAIN recipe.ingredients.items |->
                         IngredientLine(recipe.ingredients.items[i])])
    \o LIT_STEPS
    \o NewLine
    \o Join(NewLine, [i \in DOMAIN recipe.steps.items |->
                         StepLine(i - 1, recipe.steps.items[i])])

(***************************************************************************)
(* Catalog load: RecipeGenerator.__init__                                  *)
(***************************************************************************)
\* a cell of the csv file: text that ast.literal_eval parses to a value,
\* or text it rejects
Literal(value) == [parses |-> TRUE, value |-> value]

NoLiteral == [parses |-> FALSE, value |-> PyNonList(0)]

\* ast.literal_eval raises ValueError or SyntaxError on text that is no
\* literal and returns the value of any literal, list or not
LiteralEvalRaises(cell) == ~cell.parses

literal_eval(cell) == cell.value

sampleStep == <<"s">>

CsvRow(ingredients, steps) ==
    [ingredients |-> ingredients, steps |-> steps]

\* the rows a csv file of the model can hold
CsvRows ==
    {CsvRow(Literal(StrList(ings)), Literal(StrList(<<sampleStep>>))) :
        ings \in {<<Egg>>, <<butter>>, <<Egg, butter>>}}
    \cup {CsvRow(NoLiteral, Literal(StrList(<<sampleStep>>))),
          CsvRow(Literal(PyNonList(42)), Literal(StrList(<<sampleStep>>))),
          CsvRow(Literal(PyList(<<PyInt(1)>>)), Literal(StrList(<<sampleStep>>))),
          CsvRow(Literal(StrList(<<Egg>>)), NoLiteral),
          CsvRow(Literal(StrList(<<Egg>>)), Literal(PyNonList(42))),
          CsvRow(Literal(StrList(<<butter>>)), Literal(PyList(<<PyInt(1)>>)))}

\* the file at data_path: missing, or a table of rows
CsvSources ==
    {[exists |-> FALSE, rows |-> <<>>]}
    \cup {[exists |-> TRUE, rows |-> rows] : rows \in SeqsUpTo(CsvRows, MaxRecipes)}

\* lines 11-14 raise: read_csv on a missing file, literal_eval on a cell
LoadRaises(source) ==
    \/ ~source.exists
    \/ \E i \in DOMAIN source.rows :
          \/ LiteralEvalRaises(source.rows[i].ingredients)
          \/ LiteralEvalRaises(source.rows[i].steps)

\* lines 11-14: the data frame
LoadedFrame(source) ==
    [i \in DOMAIN source.rows |->
        [id |-> i, name |-> recipeName, minutes |-> i,
         ingredients |-> literal_eval(source.rows[i].ingredients),
         steps |-> literal_eval(source.rows[i].steps),
         n_ingredients |-> Len(source.rows[i].ingredients.value.items)]]

(***************************************************************************)
(* main                                                                    *)
(***************************************************************************)
Whitespace == {" ", "\t", "\n"}

RECURSIVE LStrip(_)
LStrip(s) ==
    IF s # <<>> /\ Head(s) \in Whitespace THEN LStrip(Tail(s)) ELSE s

RECURSIVE RStrip(_)
RStrip(s) ==
    IF s # <<>> /\ s[Len(s)] \in Whitespace
    THEN RStrip(SubSeq(s, 1, Len(s) - 1)) ELSE s

\* str.strip()
Strip(s) == RStrip(LStrip(s))

\* the character U+00B2, superscript two: a digit for str.isdigit, no
\* decimal digit for int()
SuperscriptTwo == "^2"

\* str.isdigit(): not empty, and every character is a digit
IsDigit(s) ==
    /\ s # <<>>
    /\ \A i \in DOMAIN s : s[i] \in Range(DecimalDigits) \cup {SuperscriptTwo}

\* int(s) raises ValueError on a character that is no decimal digit
IntRaises(s) == \E i \in DOMAIN s : s[i] \notin Range(DecimalDigits)

DigitValue(c) == (CHOOSE i \in DOMAIN DecimalDigits : DecimalDigits[i] = c) - 1

\* int(s), for s of decimal digits
RECURSIVE IntOf(_)
IntOf(s) ==
    IF s = <<>> THEN 0
    ELSE 10 * IntOf(SubSeq(s, 1, Len(s) - 1)) + DigitValue(s[Len(s)])

\* line 28: the default of max_recipes
DefaultMaxRecipes == 5

\* what the user can type at the ingredient prompt
InputUniverse == {LIT_QUIT, LIT_EXIT, LIT_QUIT_PADDED, LIT_EXIT_UPPER, LIT_QUERY, <<>>}

\* what the user can type at the selection prompt
ChoiceUniverse ==
    {<<"1">>, <<"2">>, <<"0">>, <<"3">>, <<" ", "1">>, LIT_BACK, LIT_QUIT,
     <<>>, <<SuperscriptTwo>>}

Init ==
    /\ pc = "start"
    /\ df = <<>>
    /\ ratio \in RatioTables
    /\ user_input = <<>>
    /\ user_ingredients = <<>>
    /\ max_recipes = DefaultMaxRecipes
    /\ matches = <<>>
    /\ choice = <<>>
    /\ formatted = <<>>
    /\ output = <<>>

\* line 74: RecipeGenerator()
Construct ==
    /\ pc = "start"
    /\ \E source \in CsvSources :
          IF LoadRaises(source)
          THEN /\ pc' = "load_error"
               /\ df' = df
          ELSE /\ pc' = "prompt"
               /\ df' = LoadedFrame(source)
    /\ UNCHANGED <<ratio, user_input, user_ingredients, max_recipes, matches,
                   choice, formatted, output>>

\* line 82: user_input.lower() in ['quit', 'exit']
IsQuit(text) == Lower(text) \in {LIT_QUIT, LIT_EXIT}

\* the lists extract_ingredients can return for a text: spaCy decides the
\* tokens kept, and a text without characters has no token
extract_ingredients(text) == IF text = <<>> THEN {<<>>} ELSE TermLists

\* lines 81-95 and 98-99: from the ingredient prompt to the next prompt.
\* formatted records the argument of the format_recipe call of the current
\* pass through the loop.
ReadIngredients ==
    /\ pc = "prompt"
    /\ \E text \in InputUniverse :
       \E terms \in extract_ingredients(Strip(text)) :
          /\ user_input' = Strip(text)
          /\ IF IsQuit(Strip(text))
             THEN /\ pc' = "done"
                  /\ UNCHANGED <<user_ingredients, matches, formatted>>
             ELSE /\ user_ingredients' = terms
                  /\ formatted' = <<>>
                  /\ IF FindRaises(df)
                     THEN /\ pc' = "crash_search"
                          /\ matches' = matches
                     ELSE /\ matches' = find_recipes(df, terms, max_recipes)
                          /\ pc' = IF matches' # <<>> THEN "choose" ELSE "prompt"
    /\ UNCHANGED <<df, ratio, max_recipes, choice, output>>

\* lines 95-97: from the selection prompt to the ingredient prompt
ReadChoice ==
    /\ pc = "choose"
    /\ \E c \in ChoiceUniverse :
          /\ choice' = c
          /\ IF ~IsDigit(c)
             THEN /\ pc' = "prompt"
                  /\ UNCHANGED <<formatted, output>>
             ELSE IF IntRaises(c)
             THEN /\ pc' = "crash_choice"
                  /\ UNCHANGED <<formatted, output>>
             ELSE IF ~(1 <= IntOf(c) /\ IntOf(c) <= Len(matches))
             THEN /\ pc' = "prompt"
                  /\ UNCHANGED <<formatted, output>>
             ELSE /\ formatted' = <<matches[IntOf(c)]>>
                  /\ IF FormatRaises(matches[IntOf(c)])
                     THEN /\ pc' = "crash_format"
                          /\ output' = output
                     ELSE /\ pc' = "prompt"
                          /\ output' = format_recipe(matches[IntOf(c)])
    /\ UNCHANGED <<df, ratio, user_input, user_ingredients, max_recipes, matches>>

Next == Construct \/ ReadIngredients \/ ReadChoice

Spec == Init /\ [][Next]_vars

(***************************************************************************)
(* The search model: find_recipes over every catalog of well-formed        *)
(* recipes, every duplicate-free term list and every limit.                *)
(***************************************************************************)
SearchRow(i, ings) ==
    [id |-> i, name |-> recipeName, minutes |-> i,
     ingredients |-> StrList(ings), steps |-> StrList(<<recipeName>>),
     n_ingredients |-> Len(ings)]

RECURSIVE SumLen(_)
SumLen(lists) == IF lists = <<>> THEN 0 ELSE Len(Head(lists)) + SumLen(Tail(lists))

\* the ingredient lists of the rows of a catalog
IngredientLists ==
    {c \in SeqsUpTo(SeqsUpTo(IngredientUniverse, MaxIngredients), MaxRecipes) :
        SumLen(c) <= MaxIngredients}

SearchCatalogs ==
    {[i \in DOMAIN c |-> SearchRow(i, c[i])] : c \in IngredientLists}

InitSearch ==
    /\ pc = "ready"
    /\ df \in SearchCatalogs
    /\ ratio \in RatioTables
    /\ user_input = <<>>
    /\ user_ingredients = <<>>
    /\ max_recipes = 0
    /\ matches = <<>>
    /\ choice = <<>>
    /\ formatted = <<>>
    /\ output = <<>>

FindRecipes ==
    /\ pc = "ready"
    /\ \E terms \in TermLists, limit \in 1..MaxLimit :
          /\ user_ingredients' = terms
          /\ max_recipes' = limit
          /\ matches' = find_recipes(df, terms, limit)
    /\ pc' = "found"
    /\ UNCHANGED <<df, ratio, user_input, choice, formatted, output>>

NextSearch == FindRecipes

SpecSearch == InitSearch /\ [][NextSearch]_vars

(***************************************************************************)
(* The format model: format_recipe over recipes whose strings may hold     *)
(* line breaks and text that looks like the rendering itself.              *)
(***************************************************************************)
FormatAlphabet == {"a", "\n"}

IngredientsHeader == SubSeq(LIT_INGREDIENTS, 3, Len(LIT_INGREDIENTS))

StepsHeader == SubSeq(LIT_STEPS, 3, Len(LIT_STEPS))

FormatStrings ==
    SeqsUpTo(FormatAlphabet, MaxStrLen) \cup {<<"-", " ", "a">>, StepsHeader}

\* a name that holds the two headers of the rendering
headerName ==
    recipeName \o NewLine \o IngredientsHeader \o <<"0">> \o LIT_COLON
    \o NewLine \o StepsHeader

FormatRecipes ==
    {[id |-> 7, name |-> name, time |-> 30, score |-> 1,
      ingredients |-> StrList(ings), steps |-> StrList(steps),
      n_ingredients |-> n] :
        name \in {recipeName, headerName},
        ings \in SeqsUpTo(FormatStrings, MaxListLen),
        steps \in {<<>>, <<sampleStep, <<"-", " ", "a">> >>},
        n \in {0, 12}}

\* format_recipe compares no strings: the ratio table is empty
InitFormat ==
    /\ pc = "ready"
    /\ df = <<>>
    /\ ratio \in [{} -> RatioValues]
    /\ user_input = <<>>
    /\ user_ingredients = <<>>
    /\ max_recipes = DefaultMaxRecipes
    /\ matches \in {<<r>> : r \in FormatRecipes}
    /\ choice = <<>>
    /\ formatted = <<>>
    /\ output = <<>>

\* line 97: format_recipe(recipe)
FormatRecipe ==
    /\ pc = "ready"
    /\ pc' = "formatted"
    /\ formatted' = <<matches[1]>>
    /\ output' = format_recipe(matches[1])
    /\ UNCHANGED <<df, ratio, user_input, user_ingredients, max_recipes,
                   matches, choice>>

NextFormat == FormatRecipe

SpecFormat == InitFormat /\ [][NextFormat]_vars

(***************************************************************************)
(* Properties of the search model.                                         *)
(***************************************************************************)
LoweredOf(i) == LowerAll(df[i].ingredients)

\* term t has an ingredient of row i whose ratio is above the threshold
TermHits(t, i) ==
    \E j \in DOMAIN LoweredOf(i) : ratio[<<t, LoweredOf(i)[j]>>] > Threshold

\* the number of terms of the query that hit row i
ExpectedScore(i) ==
    Cardinality({t \in Range(user_ingredients) : TermHits(t, i)})

Matching == {i \in DOMAIN df : ExpectedScore(i) > 0}

\* C1: the score of every recipe is the number of query terms with at
\* least one ingredient of the recipe above the threshold, each such term
\* counted once; the score stored in a result is that number.
C1_ScoreCountsTerms ==
    pc = "found" =>
        /\ \A i \in DOMAIN df :
              calculate_match_score(user_ingredients, df[i].ingredients)
                  = ExpectedScore(i)
        /\ \A k \in DOMAIN matches :
              matches[k].score = ExpectedScore(matches[k].id)

\* a returned recipe has two ingredients above the threshold for one term,
\* and its score is 1
C1_Witness ==
    /\ pc = "found"
    /\ \E k \in DOMAIN matches, t \in Range(user_ingredients) :
          /\ matches[k].score = 1
          /\ \E j1, j2 \in DOMAIN LoweredOf(matches[k].id) :
                /\ j1 # j2
                /\ ratio[<<t, LoweredOf(matches[k].id)[j1]>>] > Threshold
                /\ ratio[<<t, LoweredOf(matches[k].id)[j2]>>] > Threshold

\* C2: every returned result has 1 <= score <= |terms|; with no terms the
\* result is empty.
C2_ScoreBounds ==
    pc = "found" =>
        /\ \A k \in DOMAIN matches :
              /\ 1 <= matches[k].score
              /\ matches[k].score <= Len(user_ingredients)
        /\ (user_ingredients = <<>> => matches = <<>>)

\* a result of score |terms| = 2 is returned while a recipe of the catalog
\* that no term hits is left out
C2_Witness ==
    /\ pc = "found"
    /\ Len(user_ingredients) = 2
    /\ \E k \in DOMAIN matches : matches[k].score = 2
    /\ \E i \in DOMAIN df :
          /\ df[i].ingredients.items # <<>>
          /\ ExpectedScore(i) = 0
          /\ \A k \in DOMAIN matches : matches[k].id # i

\* C3: the results are ordered by score, descending.
C3_SortedDescending ==
    pc = "found" =>
        \A k \in 1..(Len(matches) - 1) : matches[k].score >= matches[k + 1].score

\* the sort moved a later recipe of the catalog in front of an earlier one
C3_Witness ==
    /\ pc = "found"
    /\ \E k \in 1..(Len(matches) - 1) :
          /\ matches[k].score > matches[k + 1].score
          /\ matches[k].id > matches[k + 1].id

\* C4: the result holds min(limit, m) of the m matching recipes, each
\* once, and no matching recipe left out has a strictly higher score than
\* a returned one.
C4_TruncatedToBest ==
    pc = "found" =>
        /\ Len(matches) = Min(max_recipes, Cardinality(Matching))
        /\ Len(matches) <= max_recipes
        /\ \A k \in DOMAIN matches : matches[k].id \in Matching
        /\ \A k1, k2 \in DOMAIN matches :
              k1 # k2 => matches[k1].id # matches[k2].id
        /\ \A i \in Matching :
              (\A k \in DOMAIN matches : matches[k].id # i) =>
                  \A k \in DOMAIN matches : ExpectedScore(i) <= matches[k].score

\* limit 1 over an earlier recipe of score 1 and a later one of score 2:
\* only the later one is returned
C4_Witness ==
    /\ pc = "found"
    /\ max_recipes = 1
    /\ Len(matches) = 1
    /\ matches[1].score = 2
    /\ \E i \in Matching : i < matches[1].id /\ ExpectedScore(i) = 1

\* C9: a ratio of exactly 75 does not count and a ratio of 76 counts: a
\* recipe whose ratios are all 75 is not returned, and the score of a
\* returned recipe is the number of terms with an ingredient of ratio 76.
C9_ThresholdStrict ==
    pc = "found" =>
        /\ \A i \in DOMAIN df :
              (\A t \in Range(user_ingredients), j \in DOMAIN LoweredOf(i) :
                    ratio[<<t, LoweredOf(i)[j]>>] = 75)
                  => \A k \in DOMAIN matches : matches[k].id # i
        /\ \A k \in DOMAIN matches :
              matches[k].score =
                  Cardinality({t \in Range(user_ingredients) :
                      \E j \in DOMAIN LoweredOf(matches[k].id) :
                          ratio[<<t, LoweredOf(matches[k].id)[j]>>] = 76})

\* one recipe with a single ingredient: the term of ratio 76 counts, the
\* term of ratio 75 does not, and the score is 1 of 2
C9_Witness ==
    /\ pc = "found"
    /\ Len(user_ingredients) = 2
    /\ \E k \in DOMAIN matches :
          /\ Len(LoweredOf(matches[k].id)) = 1
          /\ matches[k].score = 1
          /\ \E t1, t2 \in Range(user_ingredients) :
                /\ ratio[<<t1, LoweredOf(matches[k].id)[1]>>] = 75
                /\ ratio[<<t2, LoweredOf(matches[k].id)[1]>>] = 76

\* C10: results of equal score keep the order of the catalog.
C10_StableTies ==
    pc = "found" =>
        \A k1, k2 \in DOMAIN matches :
            (k1 < k2 /\ matches[k1].score = matches[k2].score)
                => matches[k1].id < matches[k2].id

\* two recipes of equal score are returned
C10_Witness ==
    /\ pc = "found"
    /\ \E k1, k2 \in DOMAIN matches :
          k1 < k2 /\ matches[k1].score = matches[k2].score

(***************************************************************************)
(* Properties of the interactive loop.                                     *)
(***************************************************************************)
\* a value that is a list of str
WellFormed(v) ==
    v.kind = "list" /\ \A i \in DOMAIN v.items : v.items[i].kind = "str"

\* C5: a catalog with an ingredients or steps value that is no list of
\* strings is never constructed, and no search or format call fails on
\* such a value.
C5_LoadValidates ==
    /\ pc \notin {"start", "load_error"} =>
          \A i \in DOMAIN df :
              WellFormed(df[i].ingredients) /\ WellFormed(df[i].steps)
    /\ pc \notin {"crash_search", "crash_format"}

\* the selection is a decimal numeral of an index of the result list
ValidSelection(c) ==
    /\ c # <<>>
    /\ \A i \in DOMAIN c : c[i] \in Range(DecimalDigits)
    /\ 1 <= IntOf(c) /\ IntOf(c) <= Len(matches)

\* C6: format_recipe is called only with the element of the current,
\* non-empty result list at the index the user chose; on any other
\* selection it is not called and the loop goes back to the ingredient
\* prompt.
C6_SelectionValidated ==
    [][pc = "choose" =>
          /\ matches # <<>>
          /\ IF ValidSelection(choice')
             THEN formatted' = <<matches[IntOf(choice')]>>
             ELSE formatted' = <<>> /\ pc' = "prompt"]_vars

\* C7: quit or exit at the ingredient prompt ends the loop with no further
\* search or format; any other input leads back to the ingredient prompt,
\* at once or through the selection prompt, and the loop ends in no other
\* way.
C7_OnlyQuitEnds ==
    [][/\ (pc = "prompt" /\ IsQuit(user_input')) =>
              /\ pc' = "done"
              /\ matches' = matches
              /\ formatted' = formatted
              /\ output' = output
       /\ (pc = "prompt" /\ ~IsQuit(user_input')) => pc' \in {"prompt", "choose"}
       /\ pc = "choose" => pc' = "prompt"
       /\ pc = "done" => pc' = "done"]_vars

(***************************************************************************)
(* Properties of the format model.                                         *)
(***************************************************************************)
\* text.split("\n"), from position i on, cur the line read so far
RECURSIVE SplitFrom(_, _, _)
SplitFrom(text, i, cur) ==
    IF i > Len(text) THEN <<cur>>
    ELSE IF text[i] = "\n" THEN <<cur>> \o SplitFrom(text, i + 1, <<>>)
    ELSE SplitFrom(text, i + 1, Append(cur, text[i]))

SplitLines(text) == SplitFrom(text, 1, <<>>)

HasPrefix(line, prefix) ==
    Len(line) >= Len(prefix) /\ SubSeq(line, 1, Len(prefix)) = prefix

Least(S) == CHOOSE i \in S : \A j \in S : i <= j

IsIngredientLine(line) == HasPrefix(line, <<"-", " ">>)

\* the displayed ingredient list: the lines "- <ingredient>" between the
\* first Ingredients header and the first Steps header after it
ParseIngredients(text) ==
    LET lines == SplitLines(text)
        H == {i \in DOMAIN lines : HasPrefix(lines[i], IngredientsHeader)}
    IN  IF H = {} THEN <<>>
        ELSE LET S == {i \in DOMAIN lines : i > Least(H) /\ lines[i] = StepsHeader}
             IN  IF S = {} THEN <<>>
                 ELSE LET shown == SelectSeq(SubSeq(lines, Least(H) + 1, Least(S) - 1),
                                             IsIngredientLine)
                      IN  [i \in DOMAIN shown |-> SubSeq(shown[i], 3, Len(shown[i]))]

IngredientStrings(recipe) ==
    [i \in DOMAIN recipe.ingredients.items |-> recipe.ingredients.items[i].s]

NoLineBreak(s) == \A i \in DOMAIN s : s[i] # "\n"

====
